---- MODULE Spec2Model ----
(***************************************************************************)
(* A model of bubble_chart_app.py: the Streamlit script that loads two     *)
(* CSV snapshots, filters categories and points, and draws a static or an  *)
(* animated bubble chart.                                                  *)
(*                                                                         *)
(* Numbers are exact rationals [n, d] (d > 0, lowest terms): the floating  *)
(* point rounding of the interpreter is not modelled.  NaN is the cell     *)
(* Null, which every arithmetic operator propagates, as pandas does.       *)
(* A string is the sequence of its code points, so that Python's string    *)
(* order (sorted) is the lexicographic order of the sequences.             *)
(***************************************************************************)
EXTENDS Integers, Sequences, FiniteSets, TLC

VARIABLES
  session,   \* st.session_state
  widgets,   \* the state of the input widgets (uploaders, sidebar, multiselects)
  screen,    \* what the last run of the script put on the page
  args,      \* the params dictionary and the two data frames given to the chart functions
  chart,     \* the closure of create_animated_chart (the animation object)
  plot       \* what the figure shows: the last frame drawn, or the static chart

vars == <<session, widgets, screen, args, chart, plot>>

(***************************************************************************)
(* Bounds of the model.                                                    *)
(***************************************************************************)
\* Rows of a data frame given to the chart functions.
MaxPts == 2
\* Frames of an animation.
MaxFrames == 3
\* Rows of an uploaded file, where the filters are explored.
MaxRows == 2
\* Colours asked of generate_distinct_colors.
MaxColors == 6

(***************************************************************************)
(* Cells of a data frame.                                                  *)
(***************************************************************************)
Null == [t |-> "null", n |-> 0, d |-> 1, s |-> <<>>]

abs(x) == IF x < 0 THEN -x ELSE x

\* The greatest common divisor of two naturals.
RECURSIVE GCD(_, _)
GCD(a, b) == IF b = 0 THEN a ELSE GCD(b, a % b)

\* n/d with the common divisor g taken out and the sign in the numerator.
Reduced(n, d, g) ==
  [t |-> "num", n |-> IF d < 0 THEN (-n) \div g ELSE n \div g, d |-> abs(d) \div g,
   s |-> <<>>]

\* The rational n/d in lowest terms with a positive denominator.
Num(n, d) == Reduced(n, d, GCD(abs(n), abs(d)))

IntCell(k) == [t |-> "num", n |-> k, d |-> 1, s |-> <<>>]

\* What a / b leaves behind when b is 0: Python raises ZeroDivisionError.
ZeroDivisionError == [t |-> "error", n |-> 0, d |-> 1, s |-> <<>>]

\* a / b on integers.
Div(a, b) == IF b = 0 THEN ZeroDivisionError ELSE Num(a, b)

Str(codes) == [t |-> "str", n |-> 0, d |-> 1, s |-> codes]

notna(c) == c.t # "null"

\* Float arithmetic of pandas/numpy: NaN in, NaN out.  The common
\* denominator is the least common multiple, which keeps the integers small.
AddOver(a, b, g) ==
  Num(a.n * (b.d \div g) + b.n * (a.d \div g), (a.d \div g) * b.d)

RAdd(a, b) ==
  IF a.t # "num" \/ b.t # "num" THEN Null ELSE AddOver(a, b, GCD(a.d, b.d))

RNeg(a) == IF a.t # "num" THEN Null ELSE [a EXCEPT !.n = -a.n]

RSub(a, b) == RAdd(a, RNeg(b))

\* a * b with h1 and h2, common divisors of one numerator and the other
\* denominator, taken out before multiplying.
MulOver(a, b, h1, h2) ==
  Num((a.n \div h1) * (b.n \div h2), (a.d \div h2) * (b.d \div h1))

RMul(a, b) ==
  IF a.t # "num" \/ b.t # "num" THEN Null
  ELSE MulOver(a, b, GCD(abs(a.n), b.d), GCD(abs(b.n), a.d))

RLess(a, b) == a.n * b.d < b.n * a.d

RLeq(a, b) == a.n * b.d <= b.n * a.d

\* Python's order on str: lexicographic on the code points.
RECURSIVE StrLess(_, _)
StrLess(a, b) ==
  IF b = <<>> THEN FALSE
  ELSE IF a = <<>> THEN TRUE
  ELSE IF Head(a) # Head(b) THEN Head(a) < Head(b)
  ELSE StrLess(Tail(a), Tail(b))

\* The order sorted() uses on the values of one column: numbers by value,
\* strings by StrLess (a column never mixes the two, see load_data).
CellLess(a, b) ==
  IF a.t = "num" /\ b.t = "num" THEN RLess(a, b)
  ELSE IF a.t = "str" /\ b.t = "str" THEN StrLess(a.s, b.s)
  ELSE FALSE

(***************************************************************************)
(* Series helpers (pandas).  A series is a sequence of cells; position i   *)
(* of the sequence is index label i - 1 of the series.                     *)
(***************************************************************************)
Range(f) == {f[i] : i \in DOMAIN f}

\* Series.dropna()
RECURSIVE dropna(_)
dropna(series) ==
  IF series = <<>> THEN <<>>
  ELSE IF notna(Head(series)) THEN <<Head(series)>> \o dropna(Tail(series))
  ELSE dropna(Tail(series))

\* Series.unique(): the distinct values in order of first appearance.
RECURSIVE unique(_)
unique(series) ==
  IF series = <<>> THEN <<>>
  ELSE LET init == unique(SubSeq(series, 1, Len(series) - 1))
           last == series[Len(series)]
       IN  IF last \in Range(init) THEN init ELSE Append(init, last)

\* sorted(values): ascending, by insertion.
RECURSIVE Insert(_, _)
Insert(v, sq) ==
  IF sq = <<>> THEN <<v>>
  ELSE IF CellLess(v, Head(sq)) THEN <<v>> \o sq
  ELSE <<Head(sq)>> \o Insert(v, Tail(sq))

RECURSIVE sorted(_)
sorted(values) ==
  IF values = <<>> THEN <<>>
  ELSE Insert(values[Len(values)], sorted(SubSeq(values, 1, Len(values) - 1)))

\* Position (from 0) of v in the sequence sq, as enumerate() numbers it.
IndexOf(v, sq) == (CHOOSE i \in DOMAIN sq : sq[i] = v) - 1

(***************************************************************************)
(* A data frame is a sequence of rows; a row has the five configured       *)
(* columns (label_column, category_column, x_column, y_column,             *)
(* size_column).  Row i of the sequence is at position i - 1 (iloc).       *)
(***************************************************************************)
Row(l, c, x, y, z) == [label |-> l, category |-> c, x |-> x, y |-> y, size |-> z]

Col(data, c) == [i \in 1..Len(data) |-> data[i][c]]

\* pd.api.types.is_numeric_dtype: read_csv gives a column a numeric dtype
\* exactly when none of its cells is a string.
is_numeric_dtype(series) == \A i \in DOMAIN series : series[i].t # "str"

\* convert_to_numeric without sorted(): the codes follow first appearance.
\* series.map(value_map), value_map numbering the values of order from 0.
map(series, order) ==
  [i \in DOMAIN series |->
     IF notna(series[i]) THEN IntCell(IndexOf(series[i], order)) ELSE Null]

convert_unsorted(series) ==
  IF is_numeric_dtype(series) THEN series
  ELSE map(series, unique(dropna(series)))

convert_to_numeric(series) ==
  IF is_numeric_dtype(series) THEN series
  ELSE map(series, sorted(unique(dropna(series))))

\* Series.median(), Series.min(), Series.max(): NaN is skipped, and the
\* result is NaN when nothing is left.
Half == [t |-> "num", n |-> 1, d |-> 2, s |-> <<>>]

\* The middle of the ascending values v, the mean of the two middle ones
\* when their number is even.
middle(v) ==
  IF v = <<>> THEN Null
  ELSE IF Len(v) % 2 = 1 THEN v[(Len(v) + 1) \div 2]
  ELSE RMul(RAdd(v[Len(v) \div 2], v[Len(v) \div 2 + 1]), Half)

median(series) == middle(sorted(dropna(series)))

lowest(v) == IF v = <<>> THEN Null ELSE v[1]

highest(v) == IF v = <<>> THEN Null ELSE v[Len(v)]

min(series) == lowest(sorted(dropna(series)))

max(series) == highest(sorted(dropna(series)))

\* series * scalar, series + series, series - series (same index 0..n-1).
SMul(series, k) == [i \in DOMAIN series |-> RMul(series[i], k)]

\* The padding without the fallback for an empty range: 15% of it, always.
padding_of_range_only(range) ==
  IF range.t = "num"
  THEN RMul(range, [t |-> "num", n |-> 3, d |-> 20, s |-> <<>>]) ELSE IntCell(1)

\* (min - padding, max + padding), padding 15% of the range or 1.
padding(range) ==
  IF range.t = "num" /\ range.n > 0
  THEN RMul(range, [t |-> "num", n |-> 3, d |-> 20, s |-> <<>>]) ELSE IntCell(1)

padded(lo, hi, pad) == <<RAdd(lo, RNeg(pad)), RAdd(hi, pad)>>

\* The ascending non-null values v with the padding on both sides.
around(v) == padded(lowest(v), highest(v), padding(RAdd(highest(v), RNeg(lowest(v)))))

limits(series) == around(sorted(dropna(series)))

\* create_static_chart with the checkbox ignored: always the median.
static_lines_ignore_option(x, y, params) == [h |-> median(y), v |-> median(x)]

\* The two reference lines of create_static_chart, x and y being the
\* converted columns.
static_lines(x, y, params) ==
  [h |-> IF params.use_static_horizontal THEN params.static_horizontal_value
         ELSE median(y),
   v |-> IF params.use_static_vertical THEN params.static_vertical_value
         ELSE median(x)]

\* The static chart of the converted columns x, y and the scaled sizes.
static_chart_of(x, y, sizes, lines) ==
  [kind |-> "static", frame |-> 0, progress |-> Null,
   x |-> x, y |-> y, sizes |-> sizes,
   hline |-> lines.h, vline |-> lines.v,
   xlim |-> limits(x), ylim |-> limits(y)]

\* The chart of the converted columns.
static_chart_with(x, y, sizes, params) ==
  static_chart_of(x, y, sizes, static_lines(x, y, params))

create_static_chart(data, params) ==
  static_chart_with(convert_to_numeric(Col(data, "x")),
                    convert_to_numeric(Col(data, "y")),
                    SMul(convert_to_numeric(Col(data, "size")), params.scale),
                    params)

\* What create_animated_chart computes before the first frame and animate
\* reads from its closure.
\* The closure of animate, from the converted columns of both data frames.
animated_chart_of(sx, sy, ss, ex, ey, es, params) ==
  [sx |-> sx, sy |-> sy, ss |-> ss, ex |-> ex, ey |-> ey, es |-> es,
   q1median_y |-> IF params.use_static_horizontal
                  THEN params.static_horizontal_value ELSE median(sy),
   q2median_y |-> IF params.use_static_horizontal
                  THEN params.static_horizontal_value ELSE median(ey),
   q1median_x |-> IF params.use_static_vertical
                  THEN params.static_vertical_value ELSE median(sx),
   q2median_x |-> IF params.use_static_vertical
                  THEN params.static_vertical_value ELSE median(ex),
   xlim |-> limits(sx \o ex), ylim |-> limits(sy \o ey),
   num_frames |-> params.num_frames]

create_animated_chart(start_data, end_data, params) ==
  animated_chart_of(convert_to_numeric(Col(start_data, "x")),
                    convert_to_numeric(Col(start_data, "y")),
                    SMul(convert_to_numeric(Col(start_data, "size")), params.scale),
                    convert_to_numeric(Col(end_data, "x")),
                    convert_to_numeric(Col(end_data, "y")),
                    SMul(convert_to_numeric(Col(end_data, "size")), params.scale),
                    params)

\* progress without the guard on num_frames.
progress_unguarded(frame, num_frames) == Div(frame, num_frames - 1)

\* progress = frame / (num_frames - 1) if num_frames > 1 else 0
progress(frame, num_frames) ==
  IF num_frames > 1 THEN Div(frame, num_frames - 1) ELSE IntCell(0)

\* The interpolation with the start value left out.
interpolate_no_start(start, end, p) ==
  [i \in DOMAIN start |-> RMul(RSub(end[i], start[i]), p)]

\* start + (end - start) * progress, element by element.
interpolate(start, end, p) ==
  [i \in DOMAIN start |-> RAdd(start[i], RMul(RSub(end[i], start[i]), p))]

\* What a frame draws at the given progress.
frame_at(ch, frame, p) ==
  [kind |-> "frame", frame |-> frame, progress |-> p,
   x |-> interpolate(ch.sx, ch.ex, p),
   y |-> interpolate(ch.sy, ch.ey, p),
   sizes |-> interpolate(ch.ss, ch.es, p),
   vline |-> RAdd(ch.q1median_x, RMul(RSub(ch.q2median_x, ch.q1median_x), p)),
   hline |-> RAdd(ch.q1median_y, RMul(RSub(ch.q2median_y, ch.q1median_y), p)),
   xlim |-> ch.xlim, ylim |-> ch.ylim]

\* animate(frame): what one frame draws.
animate(ch, frame) == frame_at(ch, frame, progress(frame, ch.num_frames))

(***************************************************************************)
(* CSV files.  A file is a grid of text tokens (the empty token is an      *)
(* empty field) under the header Topic, Category, X-axis, Y-axis, Size, or *)
(* something read_csv cannot parse.                                        *)
(***************************************************************************)
NoFile == [ok |-> FALSE, present |-> FALSE, rows |-> <<>>]

BadFile == [ok |-> FALSE, present |-> TRUE, rows |-> <<>>]

CsvFile(rows) == [ok |-> TRUE, present |-> TRUE, rows |-> rows]

\* The header every modelled file carries: the sidebar's default names.
CsvColumns == {"Topic", "Category", "X-axis", "Y-axis", "Size"}

Fields == {"label", "category", "x", "y", "size"}

Digits == 48..57

IsNumber(token) == token # <<>> /\ \A i \in DOMAIN token : token[i] \in Digits

RECURSIVE ParseInt(_)
ParseInt(token) ==
  IF token = <<>> THEN 0
  ELSE 10 * ParseInt(SubSeq(token, 1, Len(token) - 1)) + (token[Len(token)] - 48)

\* pd.read_csv's type inference: a column whose non-empty fields are all
\* numbers is numeric (an empty field is NaN); any other column holds its
\* fields as strings (an empty field is NaN there too).
read_csv(file) ==
  LET numeric(c) == \A i \in DOMAIN file.rows :
                       file.rows[i][c] = <<>> \/ IsNumber(file.rows[i][c])
      cell(c, token) == IF token = <<>> THEN Null
                        ELSE IF numeric(c) THEN IntCell(ParseInt(token))
                        ELSE Str(token)
  IN  [i \in DOMAIN file.rows |-> [c \in Fields |-> cell(c, file.rows[i][c])]]

\* dtype of a column: object, float64 (numbers and NaN) or int64.
dtype(series) ==
  IF \E i \in DOMAIN series : series[i].t = "str" THEN "object"
  ELSE IF \E i \in DOMAIN series : series[i].t = "null" THEN "float64"
  ELSE "int64"

\* str(k) for an integer k >= 0.
RECURSIVE IntStr(_)
IntStr(k) ==
  IF k < 10 THEN <<48 + k>> ELSE IntStr(k \div 10) \o <<48 + (k % 10)>>

\* str(value) of a non-null cell: a string is itself, an int64 is its
\* digits, a float64 (whole, here) is its digits and ".0".
str(c, isfloat) ==
  IF c.t = "str" THEN c.s
  ELSE IF isfloat THEN IntStr(c.n) \o <<46, 48>>
  ELSE IntStr(c.n)

\* sorted() on a list of str.
SortStrings(strings) ==
  LET cells == sorted([i \in DOMAIN strings |-> Str(strings[i])])
  IN  [i \in DOMAIN cells |-> cells[i].s]

\* pd.concat keeps an object column's values as they are and turns two
\* numeric columns into float64 as soon as one of them is.
discover_categories_from_data(start_data, end_data) ==
  LET a == Col(start_data, "category")
      b == Col(end_data, "category")
      isfloat == IF dtype(a) = "object" THEN dtype(b) = "float64"
                 ELSE IF dtype(b) = "object" THEN dtype(a) = "float64"
                 ELSE dtype(a) = "float64" \/ dtype(b) = "float64"
      all_categories == unique(a \o b)
      kept == dropna(all_categories)
      categories == [i \in DOMAIN kept |-> str(kept[i], isfloat)]
  IN  SortStrings(categories)

(***************************************************************************)
(* Colours.  A colour "#rrggbb" is the triple <<r, g, b>> of its bytes.    *)
(* The hue i * 0.618033988749895 mod 1 is carried to 7 decimals (HueHi and *)
(* HueLo are the digits of the golden ratio constant), the saturation in   *)
(* tenths and the value in hundredths.                                     *)
(***************************************************************************)
HueHi == 6180339
HueLo == 88749895

DefaultColor == <<31, 119, 180>>

\* int(v * (1 - num/10^8) * 255) for v in hundredths and num in 1e-8.
Byte(v, num) ==
  (255 * v * ((100000000 - num) \div 10000)
     + (255 * v * ((100000000 - num) % 10000)) \div 10000) \div 1000000

\* The channels of sextant k of the hue circle.
sextant(k, vv, pp, q, tt) ==
  CASE k = 0 -> <<vv, tt, pp>>
    [] k = 1 -> <<q, vv, pp>>
    [] k = 2 -> <<pp, vv, tt>>
    [] k = 3 -> <<pp, q, vv>>
    [] k = 4 -> <<tt, pp, vv>>
    [] OTHER -> <<vv, pp, q>>

\* colorsys.hsv_to_rgb followed by int(c * 255) on each channel.
hsv_to_rgb(h, sat, v) ==
  sextant(((6 * h) \div 10000000) % 6,
          Byte(v, 0),
          Byte(v, sat * 10000000),
          Byte(v, sat * ((6 * h) % 10000000)),
          Byte(v, sat * (10000000 - ((6 * h) % 10000000))))

\* The loop body with the saturation taken from the list's length.
color_by_count(i, num_colors) ==
  LET hue == (i * HueHi + (i * HueLo) \div 100000000) % 10000000
  IN  hsv_to_rgb(hue, 7 + (num_colors % 3), 80 + (i % 2) * 15)

\* The body of the loop of generate_distinct_colors, for index i.
color_at(i, num_colors) ==
  LET hue == (i * HueHi + (i * HueLo) \div 100000000) % 10000000
      saturation == 7 + (i % 3)
      value == 80 + (i % 2) * 15
  IN  hsv_to_rgb(hue, saturation, value)

generate_distinct_colors(num_colors) ==
  LET RECURSIVE loop(_)
      loop(i) == IF i = 0 THEN <<>> ELSE Append(loop(i - 1), color_at(i - 1, num_colors))
  IN  loop(num_colors)

(***************************************************************************)
(* The script.  One run of it is run_once: the module level code of lines  *)
(* 70 to 117 (session state defaults, sidebar widgets) and main().  The    *)
(* session state ss survives the run; w holds the state of the widgets;    *)
(* ev says which button, if any, was clicked to cause the run.             *)
(***************************************************************************)
\* The elements of a finite set of integers, ascending.
RECURSIVE SeqOfSet(_)
SeqOfSet(S) ==
  IF S = {} THEN <<>>
  ELSE LET m == CHOOSE x \in S : \A y \in S : x <= y
       IN  <<m>> \o SeqOfSet(S \ {m})

RECURSIVE Flatten(_)
Flatten(seqs) == IF seqs = <<>> THEN <<>> ELSE Head(seqs) \o Flatten(Tail(seqs))

NoArgs ==
  [valid |-> FALSE, start |-> <<>>, end |-> <<>>, num_frames |-> 0,
   scale |-> Null, use_static_horizontal |-> FALSE,
   static_horizontal_value |-> Null, use_static_vertical |-> FALSE,
   static_vertical_value |-> Null]

NoChart ==
  [sx |-> <<>>, sy |-> <<>>, ss |-> <<>>, ex |-> <<>>, ey |-> <<>>, es |-> <<>>,
   q1median_y |-> Null, q2median_y |-> Null, q1median_x |-> Null,
   q2median_x |-> Null, xlim |-> <<Null, Null>>, ylim |-> <<Null, Null>>,
   num_frames |-> 0]

NoPlot ==
  [kind |-> "none", frame |-> 0, progress |-> Null, x |-> <<>>, y |-> <<>>, sizes |-> <<>>,
   hline |-> Null, vline |-> Null, xlim |-> <<Null, Null>>, ylim |-> <<Null, Null>>]

\* What a run leaves on the page.
BlankScreen ==
  [load_error |-> FALSE, upload_info |-> FALSE, steps |-> FALSE,
   selected_categories |-> <<>>, point_options |-> <<>>, step4 |-> FALSE,
   selected_points |-> <<>>, step5 |-> FALSE, crashed |-> "",
   buttons |-> {}, downloads |-> {}, gif_saved |-> FALSE, click |-> "none"]

NoEvent == [click |-> "none"]

Click(b) == [click |-> b]

\* load_data
load_data(file) == read_csv(file)

\* Step 1 with the start data stored before the end file is parsed.
load_step_store_early(ss, w) ==
  IF w.start_file.present /\ w.end_file.present
  THEN IF ~w.start_file.ok THEN [ss |-> ss, load_error |-> TRUE, upload_info |-> FALSE]
       ELSE IF ~w.end_file.ok
       THEN [ss |-> [ss EXCEPT !.current_start_data = load_data(w.start_file)],
             load_error |-> TRUE, upload_info |-> FALSE]
       ELSE LET start_data == load_data(w.start_file)
                end_data == load_data(w.end_file)
                ss1 == [ss EXCEPT !.current_start_data = start_data,
                                  !.current_end_data = end_data,
                                  !.data_loaded = TRUE]
            IN  [ss |-> IF w.category_column \in CsvColumns
                        THEN [ss1 EXCEPT !.discovered_categories =
                                discover_categories_from_data(start_data, end_data)]
                        ELSE ss1,
                 load_error |-> FALSE, upload_info |-> FALSE]
  ELSE [ss |-> ss, load_error |-> FALSE, upload_info |-> TRUE]

\* Step 1: both files are parsed inside the try block before anything is
\* stored; an exception of read_csv leaves the session state as it was.
\* Lines 352 to 387: both files were parsed.
store_loaded(ss, w, start_data, end_data) ==
  [ss |-> IF w.category_column \in CsvColumns
          THEN [ss EXCEPT !.current_start_data = start_data,
                          !.current_end_data = end_data,
                          !.data_loaded = TRUE,
                          !.discovered_categories =
                             discover_categories_from_data(start_data, end_data)]
          ELSE [ss EXCEPT !.current_start_data = start_data,
                          !.current_end_data = end_data,
                          !.data_loaded = TRUE],
   load_error |-> FALSE, upload_info |-> FALSE]

load_step(ss, w) ==
  IF w.start_file.present /\ w.end_file.present
  THEN IF ~w.start_file.ok \/ ~w.end_file.ok
       THEN [ss |-> ss, load_error |-> TRUE, upload_info |-> FALSE]
       ELSE store_loaded(ss, w, load_data(w.start_file), load_data(w.end_file))
  ELSE [ss |-> ss, load_error |-> FALSE, upload_info |-> TRUE]

\* dict[key] = value
Put(dict, key, value) ==
  [k \in DOMAIN dict \cup {key} |-> IF k = key THEN value ELSE dict[k]]

\* for i, cat in enumerate(categories): colors[cat] = values[i]
RECURSIVE PutAll(_, _, _)
PutAll(dict, categories, values) ==
  IF categories = <<>> THEN dict
  ELSE PutAll(Put(dict, Head(categories), Head(values)), Tail(categories), Tail(values))

\* The categories before the first one that repeats an earlier one.
RECURSIVE DistinctPrefix(_)
DistinctPrefix(categories) ==
  IF categories = <<>> THEN <<>>
  ELSE LET init == DistinctPrefix(SubSeq(categories, 1, Len(categories) - 1))
       IN  IF Len(init) = Len(categories) - 1
              /\ categories[Len(categories)] \notin Range(init)
           THEN categories ELSE init

\* Step 2.  A colour picker returns its value argument (the colour the
\* dictionary holds, or the default); two pickers with the same key
\* (color_<category>) make Streamlit raise and end the run.  random is the
\* colours Randomize draws, one per category.
\* Lines 409 to 412: the default colours, when the dictionary is empty.
default_colors(ss) ==
  IF DOMAIN ss.colors = {}
  THEN PutAll(ss.colors, ss.discovered_categories,
              generate_distinct_colors(Len(ss.discovered_categories)))
  ELSE ss.colors

\* Lines 415 to 422: the colour pickers that were created write their
\* value back.
color_pickers(colors, drawn) ==
  PutAll(colors, drawn,
         [i \in DOMAIN drawn |->
            IF drawn[i] \in DOMAIN colors THEN colors[drawn[i]] ELSE DefaultColor])

\* Lines 424 to 438: the two buttons, colors being the dictionary the
\* pickers left and drawn the categories whose picker was created.
color_buttons(ss, ev, random, drawn, colors) ==
  IF drawn # ss.discovered_categories
  THEN [ss |-> [ss EXCEPT !.colors = colors], rerun |-> FALSE,
        crashed |-> "DuplicateWidgetID"]
  ELSE IF ev.click = "auto"
  THEN [ss |-> [ss EXCEPT !.colors =
                  PutAll(colors, ss.discovered_categories,
                         generate_distinct_colors(Len(ss.discovered_categories)))],
        rerun |-> TRUE, crashed |-> ""]
  ELSE IF ev.click = "random"
  THEN [ss |-> [ss EXCEPT !.colors = PutAll(colors, ss.discovered_categories, random)],
        rerun |-> TRUE, crashed |-> ""]
  ELSE [ss |-> [ss EXCEPT !.colors = colors], rerun |-> FALSE, crashed |-> ""]

color_pickers_of(ss, ev, random, drawn) ==
  color_buttons(ss, ev, random, drawn, color_pickers(default_colors(ss), drawn))

color_step(ss, ev, random) ==
  color_pickers_of(ss, ev, random, DistinctPrefix(ss.discovered_categories))

\* series == category, series.isin(categories): a category is a str, so
\* only a string cell can be equal to it.
CellIs(c, category) == c.t = "str" /\ c.s = category

isin(c, categories) == \E i \in DOMAIN categories : CellIs(c, categories[i])

PointText == <<80, 111, 105, 110, 116, 32>>

\* The (label_text, idx) pairs of one category's expander; idx is the index
\* label of the row, which is its position (RangeIndex).
options_of(start_data, selected_categories, category) ==
  LET labels == Col(start_data, "label")
      rows == SeqOfSet({i \in DOMAIN start_data :
                          /\ isin(start_data[i].category, selected_categories)
                          /\ CellIs(start_data[i].category, category)})
      text(i) == IF notna(labels[i]) THEN str(labels[i], dtype(labels) = "float64")
                 ELSE PointText \o IntStr(i - 1)
  IN  [k \in DOMAIN rows |-> [text |-> text(rows[k]), idx |-> rows[k] - 1]]

\* A multiselect returns the options the user left selected.  Its state is
\* the positions of these entries; it starts from the default (every
\* entry) whenever it is created with another list of options.
multiselect(state, options) ==
  LET chosen == IF state.options = options THEN state.chosen ELSE DOMAIN options
      kept == SeqOfSet(chosen)
  IN  [state |-> [options |-> options, chosen |-> chosen],
       value |-> [k \in DOMAIN kept |-> options[kept[k]]]]

NoWidget == [options |-> <<>>, chosen |-> {}]

\* selected_indices = [opt[1] for opt in options if opt[0] in selected_in_category]
selected_indices(options, selected_in_category) ==
  LET hit == SeqOfSet({k \in DOMAIN options :
                         options[k].text \in Range(selected_in_category)})
  IN  [k \in DOMAIN hit |-> options[hit[k]].idx]

\* DataFrame.iloc[positions].copy().reset_index(drop=True)
iloc_ok(data, positions) == \A k \in DOMAIN positions : positions[k] < Len(data)

iloc(data, positions) == [k \in DOMAIN positions |-> data[positions[k] + 1]]

final_end_of(end_data, selected_points) == iloc(end_data, selected_points)

\* The params dictionary of lines 493 to 508.
params_of(w, final_start, final_end) ==
  [valid |-> TRUE, start |-> final_start, end |-> final_end,
   num_frames |-> w.num_frames, scale |-> w.scale,
   use_static_horizontal |-> w.use_static_horizontal,
   static_horizontal_value |-> w.static_horizontal_value,
   use_static_vertical |-> w.use_static_vertical,
   static_vertical_value |-> w.static_vertical_value]

\* What a run hands on: the session state, the widget states, the page,
\* and the chart it drew, if any.
page(ss, w, s1, rerun) ==
  [ss |-> ss, w |-> w,
   screen |-> [BlankScreen EXCEPT !.load_error = s1.load_error,
                                  !.upload_info = s1.upload_info],
   args |-> NoArgs, chart |-> NoChart, plot |-> NoPlot, rerun |-> rerun]

\* Lines 548 to 582: the animation is shown with its HTML download and the
\* Create GIF button, whose block runs when that button is the one clicked.
show_animation(r, anim, ev) ==
  [r EXCEPT !.chart = anim,
            !.plot = animate(anim, anim.num_frames - 1),
            !.screen.buttons = @ \cup {"gif"},
            !.screen.gif_saved = (ev.click = "gif"),
            !.screen.downloads = {"html"} \cup
                                 (IF ev.click = "gif" THEN {"gif"} ELSE {})]

\* Lines 510 to 561: the two buttons of Step 5.
generate(r, ev, params) ==
  IF ev.click = "static"
  THEN [r EXCEPT !.args = params,
                 !.plot = create_static_chart(params.end, params),
                 !.screen.downloads = {"png"}]
  ELSE IF ev.click = "animated"
  THEN show_animation([r EXCEPT !.args = params],
                      create_animated_chart(params.start, params.end, params), ev)
  ELSE [r EXCEPT !.args = params]

\* Lines 485 to 508: Step 5, for the selected points the page holds.
chart_generation(r, ev) ==
  IF r.screen.selected_points = <<>> THEN r
  ELSE IF ~iloc_ok(r.ss.current_end_data, r.screen.selected_points)
  THEN [r EXCEPT !.screen.step5 = TRUE, !.screen.crashed = "IndexError"]
  ELSE generate([r EXCEPT !.screen.step5 = TRUE,
                          !.screen.buttons = @ \cup {"static", "animated"}],
                ev,
                params_of(r.w, iloc(r.ss.current_start_data, r.screen.selected_points),
                          final_end_of(r.ss.current_end_data,
                                       r.screen.selected_points)))

\* Lines 473 to 482: points[k] is the multiselect of the k-th selected
\* category, options[k] its (label_text, idx) pairs.
points_selected(r, ev, selected_categories, options, points) ==
  chart_generation([r EXCEPT
           !.w.sel_pts =
              [c \in Range(selected_categories) |->
                 points[CHOOSE k \in DOMAIN points : selected_categories[k] = c].state],
           !.screen.step4 = TRUE,
           !.screen.point_options = options,
           !.screen.selected_points =
              Flatten([k \in DOMAIN points |->
                         selected_indices(options[k], points[k].value)])],
        ev)

\* The multiselect with key points_<category>: its state is kept under
\* that key.
point_multiselect(sel_pts, category, options) ==
  multiselect(IF category \in DOMAIN sel_pts THEN sel_pts[category] ELSE NoWidget,
              [j \in DOMAIN options |-> options[j].text])

\* Lines 462 to 478: one expander and one multiselect per selected category.
point_selection(r, ev, selected_categories, options) ==
  points_selected(r, ev, selected_categories, options,
                  [k \in DOMAIN options |->
                     point_multiselect(r.w.sel_pts, selected_categories[k], options[k])])

\* Lines 451 to 459: Step 4 starts when a category is selected, and reads
\* the category column of the start data.
categories_selected(r, ev, selected_categories) ==
  IF selected_categories = <<>> THEN [r EXCEPT !.w.sel_pts = <<>>]
  ELSE IF r.w.category_column \notin CsvColumns
  THEN [r EXCEPT !.w.sel_pts = <<>>, !.screen.step4 = TRUE,
                 !.screen.crashed = "KeyError"]
  ELSE point_selection(r, ev, selected_categories,
             [k \in DOMAIN selected_categories |->
                options_of(r.ss.current_start_data, selected_categories,
                           selected_categories[k])])

\* Lines 444 to 449: cats is the category multiselect.
category_selection(r, ev, cats) ==
  categories_selected([r EXCEPT !.w.sel_cats = cats.state,
                                !.screen.steps = TRUE,
                                !.screen.selected_categories = cats.value,
                                !.screen.buttons = {"auto", "random"}],
                      ev, cats.value)

\* Steps 3 to 5.  r is the result so far: [ss, w, screen, args, chart, plot].
selection_step(r, ev) ==
  category_selection(r, ev, multiselect(r.w.sel_cats, r.ss.discovered_categories))

\* The widgets of Steps 3 and 4 are not created in this run.
unselected(w) == [w EXCEPT !.sel_cats = NoWidget, !.sel_pts = <<>>]

\* Lines 401 to 438 and on: s1 is what Step 1 left, s2 what Step 2 left.
after_colors(s1, s2, w, ev) ==
  IF s2.crashed # ""
  THEN [page(s2.ss, unselected(w), s1, s2.rerun) EXCEPT !.screen.crashed = s2.crashed]
  ELSE IF s2.rerun THEN page(s2.ss, unselected(w), s1, TRUE)
  ELSE selection_step(page(s2.ss, w, s1, FALSE), ev)

\* Steps 2 to 5 are shown when data is loaded and categories were found.
after_load(s1, w, ev, random) ==
  IF s1.ss.data_loaded /\ s1.ss.discovered_categories # <<>>
  THEN after_colors(s1, color_step(s1.ss, ev, random), w, ev)
  ELSE page(s1.ss, unselected(w), s1, FALSE)

\* One run of the script.  random is what Randomize Colors would draw.
run_once(ss, w, ev, random) == after_load(load_step(ss, w), w, ev, random)

\* A run, and the run st.rerun() starts at once after Auto-Assign or
\* Randomize: the same widget states, no button clicked.
RECURSIVE script(_, _, _, _)
restart(r, w, random) ==
  IF r.rerun THEN script(r.ss, w, NoEvent, random) ELSE r

script(ss, w, ev, random) == restart(run_once(ss, w, ev, random), w, random)

main(ss, w, ev, random) ==
  [script(ss, w, ev, random) EXCEPT !.screen.click = ev.click]

(***************************************************************************)
(* The state machine of the application: every user action changes one     *)
(* widget and makes Streamlit run the script again.                        *)
(***************************************************************************)
Tok(l, c, x, y, z) == [label |-> l, category |-> c, x |-> x, y |-> y, size |-> z]

\* The files on the user's disk.
FileOne == CsvFile(<<Tok(<<97>>, <<65>>, <<48>>, <<49>>, <<50>>),
                     Tok(<<98>>, <<66>>, <<50>>, <<48>>, <<52>>)>>)

FileTwo == CsvFile(<<Tok(<<97>>, <<66>>, <<51>>, <<50>>, <<54>>)>>)

DiskFiles == {FileOne, FileTwo, BadFile}

CategoryColumnChoices == {"Category", "Group"}

\* The colours random.random() may produce, cut down to two.
RandomColors == {<<10, 20, 30>>, <<200, 100, 50>>}

\* Sidebar defaults.
DefaultFrames == 100
DefaultScale == Num(5, 1000000)

InitSession ==
  [data_loaded |-> FALSE, config_loaded |-> FALSE, current_start_data |-> <<>>,
   current_end_data |-> <<>>, discovered_categories |-> <<>>, colors |-> <<>>]

InitWidgets ==
  [start_file |-> NoFile, end_file |-> NoFile, category_column |-> "Category",
   sel_cats |-> NoWidget, sel_pts |-> <<>>,
   num_frames |-> DefaultFrames, scale |-> DefaultScale,
   use_static_horizontal |-> FALSE, static_horizontal_value |-> IntCell(0),
   use_static_vertical |-> FALSE, static_vertical_value |-> IntCell(0)]

\* The state a run of the script leaves behind.
Becomes(r) ==
  /\ session' = r.ss
  /\ widgets' = r.w
  /\ screen' = r.screen
  /\ args' = r.args
  /\ chart' = r.chart
  /\ plot' = r.plot

Is(r) ==
  /\ session = r.ss
  /\ widgets = r.w
  /\ screen = r.screen
  /\ args = r.args
  /\ chart = r.chart
  /\ plot = r.plot

\* Opening the page runs the script once.
Init == Is(main(InitSession, InitWidgets, NoEvent, <<>>))

UploadStart ==
  \E f \in DiskFiles :
    Becomes(main(session, [widgets EXCEPT !.start_file = f], NoEvent, <<>>))

UploadEnd ==
  \E f \in DiskFiles :
    Becomes(main(session, [widgets EXCEPT !.end_file = f], NoEvent, <<>>))

RemoveStart ==
  /\ widgets.start_file.present
  /\ Becomes(main(session, [widgets EXCEPT !.start_file = NoFile], NoEvent, <<>>))

RemoveEnd ==
  /\ widgets.end_file.present
  /\ Becomes(main(session, [widgets EXCEPT !.end_file = NoFile], NoEvent, <<>>))

SetCategoryColumn ==
  \E c \in CategoryColumnChoices \ {widgets.category_column} :
    Becomes(main(session, [widgets EXCEPT !.category_column = c], NoEvent, <<>>))

\* The user changes the category multiselect of Step 3.
SelectCategories ==
  /\ screen.steps
  /\ \E chosen \in SUBSET (DOMAIN widgets.sel_cats.options) \ {widgets.sel_cats.chosen} :
       Becomes(main(session, [widgets EXCEPT !.sel_cats.chosen = chosen], NoEvent, <<>>))

\* The user changes the point multiselect of one category of Step 4.
SelectPoints ==
  \E c \in DOMAIN widgets.sel_pts :
    \E chosen \in SUBSET (DOMAIN widgets.sel_pts[c].options) \ {widgets.sel_pts[c].chosen} :
      Becomes(main(session, [widgets EXCEPT !.sel_pts[c].chosen = chosen], NoEvent, <<>>))

\* A click on one of the buttons the page shows.
ClickButton ==
  \E b \in screen.buttons \ {"random"} :
    Becomes(main(session, widgets, Click(b), <<>>))

ClickRandomize ==
  /\ "random" \in screen.buttons
  /\ \E random \in [1..Len(load_step(session, widgets).ss.discovered_categories)
                      -> RandomColors] :
       Becomes(main(session, widgets, Click("random"), random))

Next ==
  \/ UploadStart
  \/ UploadEnd
  \/ RemoveStart
  \/ RemoveEnd
  \/ SetCategoryColumn
  \/ SelectCategories
  \/ SelectPoints
  \/ ClickButton
  \/ ClickRandomize

Spec == Init /\ [][Next]_vars

(***************************************************************************)
(* The chart functions on their own: create_static_chart,                  *)
(* create_animated_chart and the frames FuncAnimation asks animate for,    *)
(* 0, 1, ..., num_frames - 1 and again from 0 (repeat=True), on data       *)
(* frames of up to MaxPts rows.                                            *)
(***************************************************************************)
\* The rows the data frames are made of (fields of a CSV file).
ChartRows ==
  {Tok(<<97>>, <<65>>, <<48>>, <<49>>, <<50>>),
   Tok(<<97>>, <<65>>, <<51>>, <<>>, <<52>>),
   Tok(<<97>>, <<66>>, <<98>>, <<50>>, <<>>),
   Tok(<<97>>, <<66>>, <<>>, <<52>>, <<97>>)}

ChartFrames(n) == {load_data(CsvFile(rows)) : rows \in [1..n -> ChartRows]}

ChartScale == Num(1, 2)
StaticHorizontal == IntCell(5)
StaticVertical == IntCell(7)

ChartArgs ==
  UNION {[valid : {TRUE}, start : ChartFrames(n), end : ChartFrames(n),
          num_frames : 1..MaxFrames, scale : {ChartScale},
          use_static_horizontal : BOOLEAN,
          static_horizontal_value : {StaticHorizontal},
          use_static_vertical : BOOLEAN,
          static_vertical_value : {StaticVertical}] : n \in 1..MaxPts}

ChartInit ==
  /\ args \in ChartArgs
  /\ Is([main(InitSession, InitWidgets, NoEvent, <<>>) EXCEPT !.args = args])

CreateStaticChart ==
  /\ plot.kind = "none" /\ chart = NoChart
  /\ plot' = create_static_chart(args.end, args)
  /\ UNCHANGED <<session, widgets, screen, args, chart>>

CreateAnimatedChart ==
  /\ plot.kind = "none" /\ chart = NoChart
  /\ chart' = create_animated_chart(args.start, args.end, args)
  /\ UNCHANGED <<session, widgets, screen, args, plot>>

Animate ==
  /\ chart # NoChart
  /\ plot' = animate(chart, IF plot.kind = "none" THEN 0
                            ELSE (plot.frame + 1) % chart.num_frames)
  /\ UNCHANGED <<session, widgets, screen, args, chart>>

ChartNext ==
  \/ CreateStaticChart
  \/ CreateAnimatedChart
  \/ Animate

ChartSpec == ChartInit /\ [][ChartNext]_vars

(***************************************************************************)
(* The filters of Steps 3 to 5 on every pair of files of up to MaxRows     *)
(* rows: the state after both files were uploaded, and from there the      *)
(* changes of the category and point multiselects.                         *)
(***************************************************************************)
StartRows ==
  {Tok(l, c, <<48>>, <<49>>, <<50>>) : l \in {<<97>>, <<>>},
                                       c \in {<<65>>, <<49>>, <<>>}}

EndRows == {Tok(<<97>>, c, <<53>>, <<49>>, <<50>>) : c \in {<<65>>, <<49>>}}

\* Row i of a file carries i in its X-axis field (start) or 5 + i (end).
Numbered(rows, base) ==
  [i \in DOMAIN rows |-> [rows[i] EXCEPT !.x = IntStr(base + i)]]

StartFiles ==
  UNION {{CsvFile(Numbered(rows, 0)) : rows \in [1..n -> StartRows]} : n \in 1..MaxRows}

EndFiles ==
  UNION {{CsvFile(Numbered(rows, 5)) : rows \in [1..n -> EndRows]} : n \in 1..MaxRows}

SelectInit ==
  \E s \in StartFiles, e \in EndFiles :
    Is(main(InitSession, [InitWidgets EXCEPT !.start_file = s, !.end_file = e],
            NoEvent, <<>>))

SelectNext ==
  \/ SelectCategories
  \/ SelectPoints

SelectSpec == SelectInit /\ [][SelectNext]_vars

(***************************************************************************)
(* Properties.                                                             *)
(***************************************************************************)
\* The columns of the two snapshots as create_animated_chart converts them.
StartOf(c) == convert_to_numeric(Col(args.start, c))
EndOf(c) == convert_to_numeric(Col(args.end, c))

\* p is a + (b - a) * f / (nf - 1), stated on the fractions' numerators and
\* denominators; with a NaN on either side p is NaN.
IsLerp(a, b, f, nf, p) ==
  IF a.t # "num" \/ b.t # "num" THEN p = Null
  ELSE /\ p.t = "num"
       /\ p.n * (a.d * b.d * (nf - 1))
            = p.d * (a.n * b.d * (nf - 1) + (b.n * a.d - a.n * b.d) * f)

Scaled(c) == IF c.t = "num" THEN Num(c.n * args.scale.n, c.d * args.scale.d) ELSE Null

\* C1: in every frame f of an animation of more than one frame, the x, y
\* and size drawn for point i are start_i + (end_i - start_i) * f / (num_frames - 1),
\* start_i and end_i being the numeric conversions of row i of the two data
\* frames, the size times scale.
C1_FrameIsLinearInterpolation ==
  (plot.kind = "frame" /\ args.num_frames > 1) =>
    /\ plot.frame \in 0..(args.num_frames - 1)
    /\ DOMAIN plot.x = DOMAIN args.start
    /\ DOMAIN plot.y = DOMAIN args.start
    /\ DOMAIN plot.sizes = DOMAIN args.start
    /\ \A i \in DOMAIN args.start :
         /\ IsLerp(StartOf("x")[i], EndOf("x")[i], plot.frame, args.num_frames, plot.x[i])
         /\ IsLerp(StartOf("y")[i], EndOf("y")[i], plot.frame, args.num_frames, plot.y[i])
         /\ IsLerp(Scaled(StartOf("size")[i]), Scaled(EndOf("size")[i]),
                   plot.frame, args.num_frames, plot.sizes[i])

\* A frame strictly between the first and the last one, with two points, the
\* first of which has moved half of its way along x.
C1_Witness ==
  /\ plot.kind = "frame" /\ args.num_frames = 3 /\ plot.frame = 1
  /\ Len(args.start) = 2
  /\ StartOf("x")[1] = IntCell(0) /\ EndOf("x")[1] = IntCell(3)
  /\ plot.x[1] = Num(3, 2)
  /\ plot.sizes[1].t = "num"

\* Point i is drawn at the values of row i of the given snapshot columns.
DrawnAt(i, xs, ys, zs) ==
  /\ plot.x[i] = xs[i]
  /\ plot.y[i] = ys[i]
  /\ plot.sizes[i] = SMul(zs, args.scale)[i]

\* Point i is drawn at the values of row i of the given snapshot columns,
\* in each of x, y and size for which both snapshots have a number.
DrawnWherePaired(i, xs, ys, zs) ==
  /\ (notna(StartOf("x")[i]) /\ notna(EndOf("x")[i])) => plot.x[i] = xs[i]
  /\ (notna(StartOf("y")[i]) /\ notna(EndOf("y")[i])) => plot.y[i] = ys[i]
  /\ (notna(StartOf("size")[i]) /\ notna(EndOf("size")[i]))
       => plot.sizes[i] = SMul(zs, args.scale)[i]

\* C2 as stated: frames are 0..num_frames-1, progress is 0 at frame 0 with
\* every bubble at its start x, y and size, and 1 at frame num_frames-1 with
\* every bubble at its end x, y and size.
C2_EveryBubbleStartsAndEnds ==
  plot.kind = "frame" =>
    /\ plot.frame \in 0..(args.num_frames - 1)
    /\ plot.frame = 0 =>
         /\ plot.progress = IntCell(0)
         /\ \A i \in DOMAIN args.start :
              DrawnAt(i, StartOf("x"), StartOf("y"), StartOf("size"))
    /\ (args.num_frames > 1 /\ plot.frame = args.num_frames - 1) =>
         /\ plot.progress = IntCell(1)
         /\ \A i \in DOMAIN args.end :
              DrawnAt(i, EndOf("x"), EndOf("y"), EndOf("size"))

\* C2: the animation runs from the start state to the end state.  Frames are
\* 0..num_frames-1; progress is 0 at frame 0, where every x, y and size that
\* is a number in both snapshots is at its start value; progress is 1 at
\* frame num_frames-1, where every such x, y and size is at its end value;
\* progress never leaves [0, 1] and is strictly greater in a later frame;
\* with num_frames <= 1 progress is 0 and nothing is divided by zero.  A
\* coordinate that is NaN in one snapshot is NaN in every frame.
C2_StartToEnd ==
  /\ [](plot.kind = "frame" =>
          /\ plot.frame \in 0..(args.num_frames - 1)
          /\ plot.progress # ZeroDivisionError
          /\ plot.progress.t = "num"
          /\ RLeq(IntCell(0), plot.progress) /\ RLeq(plot.progress, IntCell(1))
          /\ args.num_frames <= 1 => plot.progress = IntCell(0)
          /\ plot.frame = 0 =>
               /\ plot.progress = IntCell(0)
               /\ \A i \in DOMAIN args.start :
                    DrawnWherePaired(i, StartOf("x"), StartOf("y"), StartOf("size"))
          /\ (args.num_frames > 1 /\ plot.frame = args.num_frames - 1) =>
               /\ plot.progress = IntCell(1)
               /\ \A i \in DOMAIN args.end :
                    DrawnWherePaired(i, EndOf("x"), EndOf("y"), EndOf("size"))
          /\ \A i \in DOMAIN args.start :
               /\ (~notna(StartOf("x")[i]) \/ ~notna(EndOf("x")[i])) => plot.x[i] = Null
               /\ (~notna(StartOf("y")[i]) \/ ~notna(EndOf("y")[i])) => plot.y[i] = Null
               /\ (~notna(StartOf("size")[i]) \/ ~notna(EndOf("size")[i]))
                    => plot.sizes[i] = Null)
  /\ [][(plot.kind = "frame" /\ plot'.kind = "frame" /\ plot'.frame > plot.frame)
          => RLess(plot.progress, plot'.progress)]_vars

\* The last frame of a three-frame animation of two points: the first has
\* moved along x to its end value, the second has no y in one snapshot.
C2_Witness ==
  /\ plot.kind = "frame" /\ args.num_frames = 3 /\ plot.frame = 2
  /\ plot.progress = IntCell(1)
  /\ Len(args.start) = 2
  /\ notna(StartOf("x")[1]) /\ plot.x[1] = EndOf("x")[1] /\ plot.x[1] # StartOf("x")[1]
  /\ notna(StartOf("y")[2]) /\ plot.y[2] = Null

\* m is the median of the numbers of the series: at most half of them are
\* below it and at most half above it, and it is one of them or the mean of
\* the two it lies between; NaN when the series holds no number.
IsMedian(series, m) ==
  LET idx == {i \in DOMAIN series : notna(series[i])}
      k == Cardinality(idx)
      below == {i \in idx : RLess(series[i], m)}
      above == {i \in idx : RLess(m, series[i])}
  IN  IF k = 0 THEN m = Null
      ELSE /\ m.t = "num"
           /\ 2 * Cardinality(below) <= k
           /\ 2 * Cardinality(above) <= k
           /\ IF \E i \in idx : series[i] = m
              THEN /\ 2 * (k - Cardinality(above)) > k
                   /\ 2 * (k - Cardinality(below)) > k
              ELSE \E i \in below, j \in above :
                     /\ \A h \in below : RLeq(series[h], series[i])
                     /\ \A h \in above : RLeq(series[j], series[h])
                     /\ m.n * (2 * series[i].d * series[j].d)
                          = m.d * (series[i].n * series[j].d + series[j].n * series[i].d)

\* The values a median of the series can take.
MedianCandidates(series) ==
  {Null} \cup {series[i] : i \in DOMAIN series}
         \cup {RMul(RAdd(series[i], series[j]), Num(1, 2)) :
                 i \in {h \in DOMAIN series : notna(series[h])},
                 j \in {h \in DOMAIN series : notna(series[h])}}

MedianOf(series) == CHOOSE m \in MedianCandidates(series) : IsMedian(series, m)

\* line is a + (b - a) * progress(frame) for the frame being drawn.
LineAt(a, b, line) ==
  IF args.num_frames > 1 THEN IsLerp(a, b, plot.frame, args.num_frames, line)
  ELSE IsLerp(a, b, 0, 2, line)

\* C7: with use_static_horizontal (use_static_vertical) off, the horizontal
\* (vertical) line of the static chart is at the median of the chart's y (x)
\* values, and in frame f of the animation at
\* median_start + (median_end - median_start) * progress(f); with the option
\* on, the line is at static_horizontal_value (static_vertical_value) in the
\* static chart and in every frame, whatever the data.
C7_ReferenceLines ==
  /\ plot.kind = "static" =>
       /\ IF args.use_static_horizontal THEN plot.hline = args.static_horizontal_value
          ELSE IsMedian(EndOf("y"), plot.hline)
       /\ IF args.use_static_vertical THEN plot.vline = args.static_vertical_value
          ELSE IsMedian(EndOf("x"), plot.vline)
  /\ plot.kind = "frame" =>
       /\ IF args.use_static_horizontal THEN plot.hline = args.static_horizontal_value
          ELSE LineAt(MedianOf(StartOf("y")), MedianOf(EndOf("y")), plot.hline)
       /\ IF args.use_static_vertical THEN plot.vline = args.static_vertical_value
          ELSE LineAt(MedianOf(StartOf("x")), MedianOf(EndOf("x")), plot.vline)

\* The middle frame of three, the horizontal line static and the vertical
\* line strictly between the x medians of the two snapshots of two points.
C7_Witness ==
  /\ plot.kind = "frame" /\ args.num_frames = 3 /\ plot.frame = 1
  /\ Len(args.start) = 2
  /\ args.use_static_horizontal /\ plot.hline = StaticHorizontal
  /\ ~args.use_static_vertical /\ plot.vline.t = "num"
  /\ RLess(MedianOf(StartOf("x")), plot.vline)
  /\ RLess(plot.vline, MedianOf(EndOf("x")))
  /\ MedianOf(StartOf("x")) \notin {StartOf("x")[i] : i \in 1..2}

\* out encodes the series as convert_to_numeric is to: a numeric column is
\* returned as it is; otherwise the k distinct non-null values are mapped
\* one-to-one onto 0..k-1, equal values to equal codes, a smaller value to a
\* smaller code, and a null stays null.
Encodes(series, out) ==
  LET idx == {i \in DOMAIN series : notna(series[i])}
      k == Cardinality({series[i] : i \in idx})
      codes == {IntCell(c) : c \in 0..(k - 1)}
  IN  IF \A i \in DOMAIN series : series[i].t # "str" THEN out = series
      ELSE /\ DOMAIN out = DOMAIN series
           /\ \A i \in DOMAIN series \ idx : out[i] = Null
           /\ \A i \in idx : out[i] \in codes
           /\ {out[i] : i \in idx} = codes
           /\ \A i, j \in idx :
                /\ series[i] = series[j] => out[i] = out[j]
                /\ out[i] = out[j] => series[i] = series[j]
                /\ StrLess(series[i].s, series[j].s) => RLess(out[i], out[j])

\* The sizes before they were multiplied by scale.
Unscaled(sizes) ==
  [i \in DOMAIN sizes |->
     IF sizes[i].t = "num"
     THEN Num(sizes[i].n * args.scale.d, sizes[i].d * args.scale.n) ELSE Null]

\* C8: convert_to_numeric maps the k distinct non-null values of a
\* non-numeric column one-to-one onto 0..k-1 in sorted order, gives equal
\* values equal codes and leaves nulls null; a numeric column is returned
\* unchanged.  Stated on every column the two chart functions convert.
C8_CategoricalEncoding ==
  /\ chart # NoChart =>
       /\ Encodes(Col(args.start, "x"), chart.sx)
       /\ Encodes(Col(args.start, "y"), chart.sy)
       /\ Encodes(Col(args.start, "size"), Unscaled(chart.ss))
       /\ Encodes(Col(args.end, "x"), chart.ex)
       /\ Encodes(Col(args.end, "y"), chart.ey)
       /\ Encodes(Col(args.end, "size"), Unscaled(chart.es))
  /\ plot.kind = "static" =>
       /\ Encodes(Col(args.end, "x"), plot.x)
       /\ Encodes(Col(args.end, "y"), plot.y)
       /\ Encodes(Col(args.end, "size"), Unscaled(plot.sizes))

\* The x column "b", "0" of the start data was encoded 1, 0; the x column of
\* the end data holds a string and an empty field, the y column numbers.
C8_Witness ==
  /\ chart # NoChart
  /\ Col(args.start, "x") = <<Str(<<98>>), Str(<<48>>)>>
  /\ chart.sx = <<IntCell(1), IntCell(0)>>
  /\ Col(args.end, "x") = <<Null, Str(<<98>>)>>
  /\ chart.ex = <<Null, IntCell(0)>>
  /\ chart.ey = Col(args.end, "y")

\* The row at position p of the start data was left selected: its category
\* is a selected one and its own entry of that category's point multiselect
\* is among the chosen entries.
RowLeftSelected(p) ==
  \E k \in DOMAIN screen.selected_categories :
    LET c == screen.selected_categories[k]
    IN  /\ CellIs(session.current_start_data[p + 1].category, c)
        /\ c \in DOMAIN widgets.sel_pts
        /\ \E j \in DOMAIN screen.point_options[k] :
             /\ screen.point_options[k][j].idx = p
             /\ j \in widgets.sel_pts[c].chosen

\* C4: points are filtered independently.  Whenever Step 4 is shown, a row
\* of the start data is among the selected points if and only if its
\* category is selected and the row itself was left selected in its
\* category's point multiselect (so deselecting one point removes no other
\* row), and no row index appears twice in selected_points.
C4_PointsFilteredIndependently ==
  (screen.step4 /\ screen.crashed = "") =>
    /\ \A p \in 0..(Len(session.current_start_data) - 1) :
         (p \in Range(screen.selected_points)) <=> RowLeftSelected(p)
    /\ \A i, j \in DOMAIN screen.selected_points :
         screen.selected_points[i] = screen.selected_points[j] => i = j

\* The non-null cells of the category column of the two data frames.
CategoryCells ==
  {c \in Range(Col(session.current_start_data, "category"))
           \cup Range(Col(session.current_end_data, "category")) : notna(c)}

\* What str() can give for a cell: the text itself, or the digits of a
\* number, with ".0" when its column was read or concatenated as float64.
StringsOf(c) ==
  IF c.t = "str" THEN {c.s} ELSE {IntStr(c.n), IntStr(c.n) \o <<46, 48>>}

\* C9: the discovered categories are exactly the non-null values of the
\* category column that occur in the start data or in the end data, each as
\* a string, without duplicates and in ascending order.
C9_DiscoveredCategories ==
  session.data_loaded =>
    LET cats == session.discovered_categories
    IN  /\ \A i \in DOMAIN cats : \E c \in CategoryCells : cats[i] \in StringsOf(c)
        /\ \A c \in CategoryCells : \E i \in DOMAIN cats : cats[i] \in StringsOf(c)
        /\ \A i, j \in DOMAIN cats : i # j => cats[i] # cats[j]
        /\ \A i, j \in DOMAIN cats : i < j => ~StrLess(cats[j], cats[i])

\* C10: the snapshots are paired by row position.  Whenever points are
\* selected (Step 5), final_start and final_end have as many rows as there
\* are selected points, row i of both is the row of the start and of the end
\* data at the i-th selected position, and the selected positions are rows
\* of the start data whose category there is a selected one.
C10_PairedByRowPosition ==
  (screen.step5 /\ screen.selected_points # <<>>) =>
    LET pos == screen.selected_points
    IN  /\ args.valid
        /\ Len(args.start) = Len(pos) /\ Len(args.end) = Len(pos)
        /\ \A i \in DOMAIN pos :
             /\ pos[i] + 1 \in DOMAIN session.current_start_data
             /\ pos[i] + 1 \in DOMAIN session.current_end_data
             /\ args.start[i] = session.current_start_data[pos[i] + 1]
             /\ args.end[i] = session.current_end_data[pos[i] + 1]
             /\ isin(session.current_start_data[pos[i] + 1].category,
                     screen.selected_categories)

\* C3: the animated chart is exportable as a GIF.  With both files uploaded
\* and the animation generated, the run that the click on Create GIF causes
\* saves the GIF and offers the Download GIF button.
C3_CreateGifSavesTheGif ==
  screen.click = "gif" => (screen.gif_saved /\ "gif" \in screen.downloads)

\* The four session entries Step 1 writes.
Loaded(ss) ==
  <<ss.current_start_data, ss.current_end_data, ss.data_loaded,
    ss.discovered_categories>>

\* C5: a run in which both files are uploaded and one of them cannot be
\* parsed shows the error message and leaves current_start_data,
\* current_end_data, data_loaded and discovered_categories as they were
\* before the run.
C5_FailedLoadKeepsSession ==
  [][(/\ widgets'.start_file.present /\ widgets'.end_file.present
      /\ ~(widgets'.start_file.ok /\ widgets'.end_file.ok))
       => (/\ screen'.load_error
           /\ Loaded(session') = Loaded(session))]_vars

\* A failed load after a successful one: the error is on the page, the
\* start file is another one than the one that was loaded, and the data of
\* the earlier load is still in the session.
C5_Witness ==
  /\ screen.load_error
  /\ widgets.start_file = FileTwo /\ ~widgets.end_file.ok
  /\ session.data_loaded
  /\ session.current_start_data = load_data(FileOne)
  /\ session.discovered_categories # <<>>

\* Colour i of generate_distinct_colors as the docstring gives it: hue
\* (i * golden_ratio) mod 1 in units of 1e-7, saturation 0.7 + (i mod 3) * 0.1
\* in tenths, value 0.8 + (i mod 2) * 0.15 in hundredths.
GoldenColor(i) ==
  hsv_to_rgb((i * HueHi + (i * HueLo) \div 100000000) % 10000000,
             7 + (i % 3), 80 + (i % 2) * 15)

\* generate_distinct_colors(n) for every n up to MaxColors + 1.
ColorLists == [n \in 0..(MaxColors + 1) |-> generate_distinct_colors(n)]

\* C6: generate_distinct_colors(n) has n colours, is a prefix of
\* generate_distinct_colors(n + 1), and its colour i is a function of i
\* alone; after Auto-Assign Colors the i-th discovered category has colour i
\* of the list.
C6_DeterministicColors ==
  /\ \A n \in 0..MaxColors :
       /\ Len(ColorLists[n]) = n
       /\ ColorLists[n] = SubSeq(ColorLists[n + 1], 1, n)
       /\ \A i \in 1..n : ColorLists[n][i] = GoldenColor(i - 1)
  /\ screen.click = "auto" =>
       \A i \in DOMAIN session.discovered_categories :
         session.colors[session.discovered_categories[i]]
           = generate_distinct_colors(Len(session.discovered_categories))[i]

\* Auto-Assign was clicked with two categories on the page.
C6_Witness ==
  /\ screen.click = "auto"
  /\ Len(session.discovered_categories) = 2
  /\ session.colors[session.discovered_categories[1]] = <<204, 61, 61>>
  /\ session.colors[session.discovered_categories[2]] = GoldenColor(1)
  /\ GoldenColor(1) # GoldenColor(0)

\* The multiselects of Steps 3 and 4 as they are first shown: every category
\* and every point chosen.
DefaultSelection ==
  /\ widgets.sel_cats.chosen = DOMAIN widgets.sel_cats.options
  /\ \A c \in DOMAIN widgets.sel_pts :
       widgets.sel_pts[c].chosen = DOMAIN widgets.sel_pts[c].options

\* C11: with the default selection (every discovered category and every
\* point selected), every row of the start data whose category is non-null
\* is among the selected points that go to chart generation, whether the
\* category column holds strings or numbers.
C11_DefaultSelectionKeepsEveryRow ==
  (screen.steps /\ DefaultSelection) =>
    \A i \in DOMAIN session.current_start_data :
      notna(session.current_start_data[i].category)
        => (i - 1) \in Range(screen.selected_points)

\* The numbers of the given column of the start and of the end data
\* together, as create_animated_chart converts them.
NumbersOf(c) ==
  {v \in Range(StartOf(c)) \cup Range(EndOf(c)) : notna(v)}

\* lim is (lo - pad, hi + pad) for the least and the greatest of the values,
\* pad being 15% of hi - lo, or 1 when hi = lo: with hi > lo the lower limit
\* is (23 lo - 3 hi) / 20 and the upper one (23 hi - 3 lo) / 20.  Without
\* any value both limits are NaN.
IsLimits(values, lim) ==
  IF values = {} THEN lim = <<Null, Null>>
  ELSE \E lo \in values, hi \in values :
         /\ \A v \in values : RLeq(lo, v) /\ RLeq(v, hi)
         /\ lim[1].t = "num" /\ lim[2].t = "num"
         /\ IF lo = hi
            THEN /\ lim[1].n * lo.d = lim[1].d * (lo.n - lo.d)
                 /\ lim[2].n * lo.d = lim[2].d * (lo.n + lo.d)
            ELSE /\ lim[1].n * (20 * lo.d * hi.d)
                      = lim[1].d * (23 * lo.n * hi.d - 3 * hi.n * lo.d)
                 /\ lim[2].n * (20 * lo.d * hi.d)
                      = lim[2].d * (23 * hi.n * lo.d - 3 * lo.n * hi.d)

\* C12: the axis limits of the animation are those of the start and end
\* data together (least value minus padding, greatest value plus padding,
\* the padding 15% of the range or 1 when the range is 0), every frame is
\* drawn with them, and in every frame every x and y that is a number lies
\* strictly between its limits.
C12_BubblesInsideFixedLimits ==
  /\ chart # NoChart =>
       /\ IsLimits(NumbersOf("x"), chart.xlim)
       /\ IsLimits(NumbersOf("y"), chart.ylim)
  /\ plot.kind = "frame" =>
       /\ plot.xlim = chart.xlim
       /\ plot.ylim = chart.ylim
       /\ \A i \in DOMAIN plot.x :
            notna(plot.x[i]) =>
              RLess(plot.xlim[1], plot.x[i]) /\ RLess(plot.x[i], plot.xlim[2])
       /\ \A i \in DOMAIN plot.y :
            notna(plot.y[i]) =>
              RLess(plot.ylim[1], plot.y[i]) /\ RLess(plot.y[i], plot.ylim[2])

\* The middle frame of three with two points: the first has moved half of
\* its way from x = 0 to x = 3, the limits of x are 0 - 0.45 and 3 + 0.45;
\* the only y value is 1, so the range of y is 0 and its limits are 0 and 2.
C12_Witness ==
  /\ plot.kind = "frame" /\ args.num_frames = 3 /\ plot.frame = 1
  /\ plot.x = <<Num(3, 2), IntCell(0)>>
  /\ plot.y = <<Null, IntCell(1)>>
  /\ plot.xlim = <<Num(-9, 20), Num(69, 20)>>
  /\ plot.ylim = <<IntCell(0), IntCell(2)>>

\* C13: in every run in which Steps 2 to 5 are shown (data_loaded is true
\* and discovered_categories is non-empty), both files are uploaded at that
\* moment, current_start_data and current_end_data are the data of these
\* two files, and discovered_categories is what
\* discover_categories_from_data gives for that data and the category
\* column configured at that moment, which is therefore one of its columns.
C13_StepsShowTheUploadedFiles ==
  (session.data_loaded /\ session.discovered_categories # <<>>) =>
    /\ widgets.start_file.present /\ widgets.end_file.present
    /\ widgets.start_file.ok /\ widgets.end_file.ok
    /\ session.current_start_data = load_data(widgets.start_file)
    /\ session.current_end_data = load_data(widgets.end_file)
    /\ widgets.category_column \in CsvColumns
    /\ session.discovered_categories
         = discover_categories_from_data(load_data(widgets.start_file),
                                         load_data(widgets.end_file))

\* The same string of a non-numeric column has the same code in the
\* converted start column sc and in the converted end column ec.
SameCodes(c, sc, ec) ==
  \A i \in DOMAIN args.start, j \in DOMAIN args.end :
    (args.start[i][c].t = "str" /\ args.start[i][c] = args.end[j][c])
      => sc[i] = ec[j]

\* C14: create_animated_chart encodes a non-numeric x, y or size column
\* consistently in the two snapshots: a value that occurs in the start and
\* in the end data has the same code in both (the sizes before scaling), so
\* a point whose x, y or size is the same string in both snapshots is drawn
\* at one and the same x, y or size in every frame.
C14_SameCodeInBothSnapshots ==
  /\ chart # NoChart =>
       /\ SameCodes("x", chart.sx, chart.ex)
       /\ SameCodes("y", chart.sy, chart.ey)
       /\ SameCodes("size", Unscaled(chart.ss), Unscaled(chart.es))
  /\ plot.kind = "frame" =>
       \A i \in DOMAIN args.start :
         /\ (args.start[i].x.t = "str" /\ args.start[i].x = args.end[i].x)
              => plot.x[i] = chart.sx[i]
         /\ (args.start[i].y.t = "str" /\ args.start[i].y = args.end[i].y)
              => plot.y[i] = chart.sy[i]
         /\ (args.start[i].size.t = "str" /\ args.start[i].size = args.end[i].size)
              => plot.sizes[i] = chart.ss[i]

====
